---- MODULE Spec2Model ----
(***************************************************************************)
(* Telemetry-to-corner analysis of api/app.py: _build_series,              *)
(* _resample_series, _moving_average, _detect_corners and the request      *)
(* handler lap_corners.                                                    *)
(*                                                                         *)
(* Numbers.  The code computes in floating point; the model computes the   *)
(* same rationals exactly, as integers over a fixed denominator:           *)
(*   - raw sample fields (ts, speed, throttle, brake, x, y) and distances  *)
(*     are integers;                                                       *)
(*   - the interpolated fields of a resampled series are stored times      *)
(*     InterpDen (the interpolation ratio is a multiple of 1/InterpDen for *)
(*     every lap of the model);                                            *)
(*   - a moving average over the 9-wide window is stored as the window's   *)
(*     sum, i.e. times WINDOW;                                             *)
(*   - thresholds are stored in thousandths (3.0 is 3000), so that the     *)
(*     scale01 division by 100 stays exact.                                *)
(* Every comparison of the code is made after cross-multiplying the two    *)
(* denominators.  Sequences are 1-based: index i of the code is i+1 here.  *)
(***************************************************************************)
EXTENDS Integers, Sequences, FiniteSets, TLC

\* ------------------------------------------------------------------ values

\* Python's None / a present value v.
None == <<>>
Some(v) == <<v>>
IsNone(o) == o = <<>>

Min2(a, b) == IF a <= b THEN a ELSE b
Max2(a, b) == IF a >= b THEN a ELSE b
Abs(a) == IF a < 0 THEN 0 - a ELSE a

\* max(...) of the slice without its last element.
SliceMaxBefore(s, lo, hi) ==
  CHOOSE m \in {s[k] : k \in lo..Max2(lo, hi - 1)} : \A k \in lo..Max2(lo, hi - 1) : m >= s[k]

\* min(...) / max(...) of a non-empty slice s[lo..hi].
SliceMin(s, lo, hi) == CHOOSE m \in {s[k] : k \in lo..hi} : \A k \in lo..hi : m <= s[k]
SliceMax(s, lo, hi) == CHOOSE m \in {s[k] : k \in lo..hi} : \A k \in lo..hi : m >= s[k]

\* math.hypot on the integer displacements of the model's laps, all of which
\* have an integer length (axis-aligned moves and 3-4-5 triangles).
\* A Python list: the values themselves, in order.
List(f) == f \o <<>>

Hypot(dx, dy) == CHOOSE r \in 0..(Abs(dx) + Abs(dy)) : r * r = dx * dx + dy * dy

\* `v or d`: Python's truthiness takes d when v is None and also when v is 0.
OrElse(v, d) == IF IsNone(v) \/ v[1] = 0 THEN d ELSE v[1]

\* ------------------------------------------------------------ _build_series

\* A row is usable when it carries x, y and ts.
ValidSample(r) == ~IsNone(r.x) /\ ~IsNone(r.y) /\ ~IsNone(r.ts)

Samples(rows) == SelectSeq(rows, ValidSample)

\* The loops of the program run over an index range lo..hi with the state
\* they carry; the model runs such a loop as the loop over lo..mid followed,
\* from the state that one ends in, by the loop over mid+1..hi.
Mid(lo, hi) == (lo + hi) \div 2

\* The outputs of the loop over samples lo..hi for field f, entered with the
\* previous output prev: own value, else the previous output.
RECURSIVE CarryOver(_, _, _, _, _)
CarryThen(samples, f, mid, hi, left) ==
  left \o CarryOver(samples, f, mid + 1, hi, left[Len(left)])

CarryOver(samples, f, lo, hi, prev) ==
  IF lo = hi THEN <<OrElse(samples[lo][f], prev)>>
  ELSE CarryThen(samples, f, Mid(lo, hi), hi,
                 CarryOver(samples, f, lo, Mid(lo, hi), prev))

\* speed / throttle / brake: own value, else the previous output (0 at the first).
CarryForward(samples, f) == CarryOver(samples, f, 1, Len(samples), 0)

\* The distances of samples lo..hi, the sample before lo being at prev:
\* dist[i] = dist[i-1] + hypot(x - prev_x, y - prev_y).
RECURSIVE PathOver(_, _, _, _)
PathThen(samples, mid, hi, left) ==
  left \o PathOver(samples, mid + 1, hi, left[Len(left)])

PathOver(samples, lo, hi, prev) ==
  IF lo = hi
    THEN <<prev + Hypot(samples[lo].x[1] - samples[lo - 1].x[1],
                        samples[lo].y[1] - samples[lo - 1].y[1])>>
    ELSE PathThen(samples, Mid(lo, hi), hi, PathOver(samples, lo, Mid(lo, hi), prev))

\* dist[0] = 0, then the loop over the samples after the first.
PathLength(samples) ==
  IF Len(samples) < 2 THEN <<0>> ELSE <<0>> \o PathOver(samples, 2, Len(samples), 0)

\* None (<<>>) when fewer than 2 usable samples, else the distance series.
_build_series(rows) ==
  LET samples == Samples(rows)
      n == Len(samples)
  IN  IF n < 2 THEN None
      ELSE Some([dist     |-> PathLength(samples),
                 time     |-> List([i \in 1..n |-> samples[i].ts[1] - samples[1].ts[1]]),
                 speed    |-> CarryForward(samples, "speed"),
                 throttle |-> CarryForward(samples, "throttle"),
                 brake    |-> CarryForward(samples, "brake"),
                 x        |-> List([i \in 1..n |-> samples[i].x[1]]),
                 y        |-> List([i \in 1..n |-> samples[i].y[1]])])

\* ---------------------------------------------------------- _moving_average

WINDOW == 9

\* extended = [values[0]] * half + values + [values[-1]] * half, read at
\* (1-based) position j of the extended list.
Extended(values, half, j) ==
  IF j <= half THEN values[1]
  ELSE IF j > half + Len(values) THEN values[Len(values)]
  ELSE values[j - half]

RECURSIVE WindowSum(_, _, _, _)
WindowSum(values, half, from, count) ==
  IF count = 0 THEN 0
  ELSE Extended(values, half, from) + WindowSum(values, half, from + 1, count - 1)

\* The result times `window` (each window holds exactly `window` entries);
\* the unchanged copy of the first branch is scaled the same way.
_moving_average(values, window) ==
  IF window <= 1 \/ Len(values) <= 2
    THEN List([i \in 1..Len(values) |-> window * values[i]])
    ELSE List([i \in 1..Len(values) |-> WindowSum(values, window \div 2, i, window)])

\* --------------------------------------------------------- _resample_series

\* Denominator of the interpolation ratio over the laps of the model.
InterpDen == 2 * 3

\* The grid without its forced last point.
OpenGrid(total, step) ==
  List([i \in 1..(Max2(total \div step, 1) + 1) |-> Min2(total, (i - 1) * step)])

\* steps = max(int(total / step), 1); grid = [min(total, i * step)]; the total
\* is appended when the last point is not the total.
BuildGrid(total, step) ==
  LET steps == Max2(total \div step, 1)
      grid  == List([i \in 1..(steps + 1) |-> Min2(total, (i - 1) * step)])
  IN  IF grid[steps + 1] # total THEN Append(grid, total) ELSE grid

\* while idx < len(dist) and dist[idx] < target: idx += 1
RECURSIVE Advance(_, _, _)
Advance(dist, idx, target) ==
  IF idx <= Len(dist) /\ dist[idx] < target
    THEN Advance(dist, idx + 1, target)
    ELSE idx

\* The value of idx after the while loop for the grid points lo..hi, the
\* loop over the grid being entered with idx (idx is kept from one grid point
\* to the next).
RECURSIVE PointersOver(_, _, _, _, _)
PointersThen(dist, grid, mid, hi, left) ==
  left \o PointersOver(dist, grid, mid + 1, hi, left[Len(left)])

PointersOver(dist, grid, lo, hi, idx) ==
  IF lo = hi THEN <<Advance(dist, idx, grid[lo])>>
  ELSE PointersThen(dist, grid, Mid(lo, hi), hi,
                    PointersOver(dist, grid, lo, Mid(lo, hi), idx))

\* idx = 1 (the second sample) before the first grid point.
Pointers(dist, grid) == PointersOver(dist, grid, 1, Len(grid), 2)

\* The interpolation without its guard.
NeverZero(d0, d1) == FALSE

\* The code's test for the zero-on-zero policy of the ratio.
RatioIsZero(d0, d1) == d1 = d0

\* ratio = 0.0 if d1 == d0 else (target - d0) / (d1 - d0), times InterpDen.
Ratio(target, d0, d1) ==
  IF RatioIsZero(d0, d1) THEN 0
  ELSE (InterpDen * (target - d0)) \div (d1 - d0)

\* One field at one grid point, times InterpDen: clamped to the last sample
\* once idx has run off the series, else v0 + ratio * (v1 - v0).
Interpolate(dist, values, idx, target) ==
  IF idx > Len(dist) THEN InterpDen * values[Len(values)]
  ELSE InterpDen * values[idx - 1]
         + Ratio(target, dist[idx - 1], dist[idx]) * (values[idx] - values[idx - 1])

\* ZeroDivisionError in the ratio: the division is reached with d1 - d0 = 0.
\* (series[field][idx - 1] and [idx] are in range: 1 <= idx < len(dist).)
ResampleRaises(series, grid) ==
  LET ptr == Pointers(series.dist, grid)
  IN  \E g \in 1..Len(grid) :
        /\ ptr[g] <= Len(series.dist)
        /\ ~RatioIsZero(series.dist[ptr[g] - 1], series.dist[ptr[g]])
        /\ series.dist[ptr[g]] - series.dist[ptr[g] - 1] = 0

ResampleOn(series, grid) ==
  LET ptr == Pointers(series.dist, grid)
      F(values) == List([g \in 1..Len(grid) |->
                           Interpolate(series.dist, values, ptr[g], grid[g])])
  IN  [dist     |-> grid,
       time     |-> F(series.time),
       speed    |-> F(series.speed),
       throttle |-> F(series.throttle),
       brake    |-> F(series.brake),
       x        |-> F(series.x),
       y        |-> F(series.y)]

\* grid = None (<<>>) builds the grid from the series' own total and `step`;
\* grid = Some(g) resamples onto g.
_resample_series(series, step, grid) ==
  ResampleOn(series,
             IF IsNone(grid)
               THEN BuildGrid(series.dist[Len(series.dist)], step)
               ELSE grid[1])

\* ---------------------------------------------------------- _detect_corners

\* Thresholds are held in thousandths.
Milli == 10 * 100

\* value >= t, value <= t, value < t for value = num / den and t in thousandths.
GEq(num, den, t) == Milli * num >= den * t
LEq(num, den, t) == Milli * num <= den * t
Lt(num, den, t)  == Milli * num <  den * t

\* Denominators of the stored numbers.
RawDen    == InterpDen
SmoothDen == WINDOW * InterpDen

MIN_POINTS == 3
MERGE_GAP == 60
SUSTAIN == 3
PRE_WINDOW == 120
POST_WINDOW == 160
FALLBACK_BELOW == 12
TOP_CORNERS == 22
TOP_LOSSES == 3

\* if scale01: brake_on, brake_off, throttle_exit, min_peak_brake /= 100.0
Effective(cfg) ==
  IF cfg.scale01
    THEN [cfg EXCEPT !.brake_on       = cfg.brake_on \div 100,
                     !.brake_off      = cfg.brake_off \div 100,
                     !.throttle_exit  = cfg.throttle_exit \div 100,
                     !.min_peak_brake = cfg.min_peak_brake \div 100]
    ELSE cfg

\* A stable ascending sort of <<key, element>> pairs (list.sort(key=...)):
\* pair k lands after the pairs of smaller key and the earlier pairs of its
\* own key.
RankAsc(pairs, k) ==
  1 + Cardinality({j \in 1..Len(pairs) :
                     \/ pairs[j][1] < pairs[k][1]
                     \/ pairs[j][1] = pairs[k][1] /\ j < k})

SortAsc(pairs) ==
  List([p \in 1..Len(pairs) |->
          pairs[CHOOSE k \in 1..Len(pairs) : RankAsc(pairs, k) = p]])

\* A stable descending sort (sorted(..., reverse=True) keeps the order of
\* ties): pair k lands after the pairs of greater key and the earlier pairs
\* of its own key.
RankDesc(pairs, k) ==
  1 + Cardinality({j \in 1..Len(pairs) :
                     \/ pairs[j][1] > pairs[k][1]
                     \/ pairs[j][1] = pairs[k][1] /\ j < k})

SortDesc(pairs) ==
  List([p \in 1..Len(pairs) |->
          pairs[CHOOSE k \in 1..Len(pairs) : RankDesc(pairs, k) = p]])

\* The elements of a sequence of <<key, element>> pairs.
Elements(pairs) == List([k \in 1..Len(pairs) |-> pairs[k][2]])

\* s[:n]
Take(s, n) == SubSeq(s, 1, Min2(n, Len(s)))

\* --- braking state machine (one step of the scan, then the scan)

\* The segment started at the trigger itself.
TriggerIndex(idx) == idx

\* start_idx = max(0, idx - 1), 1-based.
OnsetIndex(idx) == Max2(1, idx - 1)

BrakeStep(acc, idx, sb, st, dist, eff) ==
  IF acc.state = "idle"
    THEN IF GEq(sb[idx], SmoothDen, eff.brake_on)
           THEN [acc EXCEPT !.state = "braking", !.start_idx = OnsetIndex(idx),
                            !.sustain = 0]
           ELSE acc
    ELSE LET sustain == IF GEq(st[idx], SmoothDen, eff.throttle_exit)
                          THEN acc.sustain + 1 ELSE 0
         IN  IF LEq(sb[idx], SmoothDen, eff.brake_off) /\ sustain >= SUSTAIN
               THEN [state     |-> "idle",
                     start_idx |-> acc.start_idx,
                     sustain   |-> 0,
                     segments  |->
                       IF idx - acc.start_idx >= MIN_POINTS
                          /\ GEq(dist[idx] - dist[acc.start_idx], 1, eff.min_distance)
                         THEN Append(acc.segments, <<acc.start_idx, idx>>)
                         ELSE acc.segments]
               ELSE [acc EXCEPT !.sustain = sustain]

\* for idx, brake in enumerate(smooth_brake), over the indices lo..hi and
\* entered in state acc.
RECURSIVE BrakeScan(_, _, _, _, _, _, _)
\* The scan from mid + 1 on, entered in the state the scan up to mid has
\* ended in (idle or braking).
BrakeThen(left, mid, hi, sb, st, dist, eff) ==
  IF left.state \in {"idle", "braking"}
    THEN BrakeScan(left, mid + 1, hi, sb, st, dist, eff)
    ELSE left

BrakeScan(acc, lo, hi, sb, st, dist, eff) ==
  IF lo > hi THEN acc
  ELSE IF lo = hi THEN BrakeStep(acc, lo, sb, st, dist, eff)
  ELSE BrakeThen(BrakeScan(acc, lo, Mid(lo, hi), sb, st, dist, eff),
                 Mid(lo, hi), hi, sb, st, dist, eff)

BrakeSegments(sb, st, dist, eff) ==
  BrakeScan([state |-> "idle", start_idx |-> 1, sustain |-> 0, segments |-> <<>>],
            1, Len(sb), sb, st, dist, eff).segments

\* --- curvature fallback

RECURSIVE Gcd(_, _)
Gcd(a, b) == IF b = 0 THEN a ELSE Gcd(b, a % b)

\* Central difference times 2 at the interior indices (0 elsewhere):
\* d[i] = (v[i + 1] - v[i - 1]) / 2.0
Central(v, i) == IF i > 1 /\ i < Len(v) THEN v[i + 1] - v[i - 1] ELSE 0

\* dx, dy (times 2): interior central differences, dx[0] = dx[1], dx[-1] = dx[-2].
FirstDerivative(v) ==
  LET n == Len(v)
      interior == List([i \in 1..n |-> Central(v, i)])
      first == [interior EXCEPT ![1] = interior[2]]
  IN  [first EXCEPT ![n] = first[n - 1]]

\* ddx, ddy (times 4): interior central differences of dx, 0 at both ends.
SecondDerivative(d) == List([i \in 1..Len(d) |-> Central(d, i)])

\* `if denom`: the code's test before dividing by (dx^2 + dy^2)^1.5.
DenomIsZero(dx, dy) == dx * dx + dy * dy = 0

\* Curvature at i as the pair (num, den) standing for num / den^1.5, which is
\* the code's value up to one positive factor common to all indices;
\* 0.0 (num = 0, den = 1) when the denominator is 0.
CurvatureAt(dx, dy, ddx, ddy, i) ==
  IF DenomIsZero(dx[i], dy[i]) THEN [num |-> 0, den |-> 1]
  ELSE [num |-> Abs(dx[i] * ddy[i] - dy[i] * ddx[i]),
        den |-> dx[i] * dx[i] + dy[i] * dy[i]]

\* a <= b for two curvature pairs: a.num^2 * b.den^3 <= b.num^2 * a.den^3,
\* after dividing out the common factors.
CurvLE(a, b) ==
  LET gn == Max2(Gcd(a.num, b.num), 1)
      gd == Gcd(a.den, b.den)
      an == a.num \div gn
      bn == b.num \div gn
      ad == a.den \div gd
      bd == b.den \div gd
  IN  an * an * bd * bd * bd <= bn * bn * ad * ad * ad

CurvGT(a, b) == ~CurvLE(a, b)

\* int(len(curvature) * 0.8), 1-based.
PercentileIndex(n) == ((8 * n) \div 10) + 1

\* sorted(curvature)[k]: the value with at most k-1 values below it and at
\* least k values not above it.
SortedAt(curv, k) ==
  LET n == Len(curv)
      below(c) == Cardinality({j \in 1..n : ~CurvLE(c, curv[j])})
      upto(c)  == Cardinality({j \in 1..n : CurvLE(curv[j], c)})
      i == CHOOSE i \in 1..n : below(curv[i]) < k /\ k <= upto(curv[i])
  IN  curv[i]

\* while i < len and curvature[i] <= threshold: i += 1
RECURSIVE SkipLow(_, _, _)
SkipLow(curv, thr, i) ==
  IF i <= Len(curv) /\ CurvLE(curv[i], thr) THEN SkipLow(curv, thr, i + 1) ELSE i

\* while i < len and curvature[i] > threshold: i += 1
RECURSIVE SkipHigh(_, _, _)
SkipHigh(curv, thr, i) ==
  IF i <= Len(curv) /\ CurvGT(curv[i], thr) THEN SkipHigh(curv, thr, i + 1) ELSE i

\* end_idx = min(len(curvature) - 1, i)
RunEnd(n, i) == Min2(n, i)

\* The outer while loop, entered at i (the code starts at its index 1): every
\* (start_idx, end_idx) it reaches, before the distance test.
RECURSIVE CurvatureRuns(_, _, _, _)
CurvatureRuns(curv, thr, i, runs) ==
  IF i > Len(curv) THEN runs
  ELSE LET start == SkipLow(curv, thr, i)
       IN  IF start > Len(curv) THEN runs
           ELSE LET stop == RunEnd(Len(curv), SkipHigh(curv, thr, start))
                IN  CurvatureRuns(curv, thr, stop + 1, Append(runs, <<start, stop>>))

Curvature(xs, ys) ==
  LET dx  == FirstDerivative(xs)
      dy  == FirstDerivative(ys)
      ddx == SecondDerivative(dx)
      ddy == SecondDerivative(dy)
  IN  List([i \in 1..Len(xs) |-> CurvatureAt(dx, dy, ddx, ddy, i)])

\* The runs above the 80th percentile; none when the series has at most 2
\* points or every curvature is 0 (`if any(curvature)`).
CurvatureCandidates(ref) ==
  IF Len(ref.x) > 2 /\ Len(ref.y) > 2
    THEN LET curv == Curvature(ref.x, ref.y)
         IN  IF \E i \in 1..Len(curv) : curv[i].num # 0
               THEN CurvatureRuns(curv, SortedAt(curv, PercentileIndex(Len(curv))), 2, <<>>)
               ELSE <<>>
    ELSE <<>>

\* if dist[end_idx] - dist[start_idx] >= min_distance: segments.append(...)
CurvatureSegments(ref, eff) ==
  LET LongEnough(run) == GEq(ref.dist[run[2]] - ref.dist[run[1]], 1, eff.min_distance)
  IN  SelectSeq(CurvatureCandidates(ref), LongEnough)

\* What the fallback raises: ZeroDivisionError when the division is reached
\* with a zero denominator, IndexError when sorted(curvature)[...] or
\* dist[end_idx] is out of range.
CurvatureRaises(ref) ==
  /\ Len(ref.x) > 2 /\ Len(ref.y) > 2
  /\ LET n  == Len(ref.x)
         dx == FirstDerivative(ref.x)
         dy == FirstDerivative(ref.y)
     IN  \/ \E i \in 1..n : ~DenomIsZero(dx[i], dy[i]) /\ dx[i] * dx[i] + dy[i] * dy[i] = 0
         \/ PercentileIndex(n) > n
         \/ LET runs == CurvatureCandidates(ref)
            IN  \E k \in 1..Len(runs) : runs[k][2] > n

\* --- merge

\* The merge loop that appends every candidate as a segment of its own.
NeverMerge(merged, seg, dist) == Append(merged, seg)

\* One candidate against the merged list so far.
MergeStep(merged, seg, dist) ==
  IF merged = <<>> THEN <<seg>>
  ELSE LET prev == merged[Len(merged)]
       IN  IF dist[seg[1]] - dist[prev[2]] <= MERGE_GAP
             THEN [merged EXCEPT ![Len(merged)] = <<prev[1], Max2(prev[2], seg[2])>>]
             ELSE Append(merged, seg)

\* for seg in segments, over the candidates lo..hi and entered with merged.
RECURSIVE MergeFrom(_, _, _, _, _)
\* The loop from candidate mid + 1 on, entered with what the candidates up
\* to mid have been merged into (at most one segment each).
MergeThen(left, segs, mid, hi, dist) ==
  IF Len(left) <= mid THEN MergeFrom(left, segs, mid + 1, hi, dist) ELSE left

MergeFrom(merged, segs, lo, hi, dist) ==
  IF lo > hi THEN merged
  ELSE IF lo = hi THEN MergeStep(merged, segs[lo], dist)
  ELSE MergeThen(MergeFrom(merged, segs, lo, Mid(lo, hi), dist),
                 segs, Mid(lo, hi), hi, dist)

\* segments.sort(key=lambda s: dist[s[0]]) and the merge loop.
MergeSegments(segs, dist) ==
  MergeFrom(<<>>,
            Elements(SortAsc(List([k \in 1..Len(segs) |-> <<dist[segs[k][1]], segs[k]>>]))),
            1, Len(segs), dist)

\* --- build_corner

\* The three rejections of build_corner, in the code's order.
TooShort(ref, eff, a, b) == Lt(ref.dist[b] - ref.dist[a], 1, eff.min_distance)

\* build_corner without its test of the time span.
NeverQuick(ref, eff, a, b) == FALSE

TooQuick(ref, eff, a, b) == Lt(ref.time[b] - ref.time[a], RawDen, eff.min_time)

TooFlat(ref, eff, a, b) ==
  /\ Lt(ref.speed[a] - SliceMin(ref.speed, a, b), RawDen, eff.min_drop)
  /\ Lt(SliceMax(ref.brake, a, b), RawDen, eff.min_peak_brake)

\* delta_s read as the comparison's own time span.
SpanOfComparison(ref, cmp, a, b) ==
  IF IsNone(cmp) THEN None ELSE Some(cmp[1].time[b] - cmp[1].time[a])

\* delta_s read as the comparison's delay at end_idx.
DelayAtEnd(ref, cmp, a, b) ==
  IF IsNone(cmp) THEN None ELSE Some(cmp[1].time[b] - ref.time[b])

\* delta_s: None without a comparison series, else cmp_dt - ref_dt.
DeltaS(ref, cmp, a, b) ==
  IF IsNone(cmp) THEN None
  ELSE Some((cmp[1].time[b] - cmp[1].time[a]) - (ref.time[b] - ref.time[a]))

\* None, or the corner of segment (a, b); speeds, brake, throttle and delta_s
\* are times InterpDen.  "corner" is numbered later (0 until then).
build_corner(ref, cmp, eff, a, b) ==
  IF TooShort(ref, eff, a, b) \/ TooQuick(ref, eff, a, b) \/ TooFlat(ref, eff, a, b)
    THEN None
    ELSE Some([corner         |-> 0,
               distance_start |-> ref.dist[a],
               distance_end   |-> ref.dist[b],
               entry_speed    |-> ref.speed[a],
               apex_speed     |-> SliceMin(ref.speed, a, b),
               exit_speed     |-> ref.speed[b],
               brake_peak     |-> SliceMax(ref.brake, a, b),
               throttle_exit  |-> ref.throttle[b],
               delta_s        |-> DeltaS(ref, cmp, a, b)])

\* What build_corner raises on a segment: IndexError when end_idx is past the
\* reference's or the comparison's arrays, ValueError when the slice handed to
\* min() and max() is empty.
SegmentsRaise(ref, cmp, segs) ==
  \E k \in 1..Len(segs) :
    \/ segs[k][2] > Len(ref.dist)
    \/ segs[k][1] > segs[k][2]
    \/ ~IsNone(cmp) /\ segs[k][2] > Len(cmp[1].time)

\* The corners the loop appends for the segments lo..hi.
RECURSIVE BuiltOver(_, _, _, _, _, _)
BuiltOver(segs, lo, hi, ref, cmp, eff) ==
  IF lo > hi THEN <<>>
  ELSE IF lo = hi THEN build_corner(ref, cmp, eff, segs[lo][1], segs[lo][2])
  ELSE BuiltOver(segs, lo, Mid(lo, hi), ref, cmp, eff)
         \o BuiltOver(segs, Mid(lo, hi) + 1, hi, ref, cmp, eff)

\* for (start, end) in segs: corner = build_corner(...); if corner: append
BuildCorners(corners, segs, ref, cmp, eff) ==
  corners \o BuiltOver(segs, 1, Len(segs), ref, cmp, eff)

\* --- speed_drop_fallback

\* for i in range(2, len(dist) - 2), 1-based: the first and the last index.
FALLBACK_FIRST == 2 + 1
FallbackLast(n) == n - 2

\* while left > 0 and apex_d - dist[left - 1] <= pre_window: left -= 1
MayExpandLeft(left) == left > 1

RECURSIVE ExpandLeft(_, _, _)
ExpandLeft(dist, apex, left) ==
  IF MayExpandLeft(left) /\ dist[apex] - dist[left - 1] <= PRE_WINDOW
    THEN ExpandLeft(dist, apex, left - 1) ELSE left

\* while right < len(dist) - 1 and dist[right + 1] - apex_d <= post_window: right += 1
MayExpandRight(n, right) == right < n

RECURSIVE ExpandRight(_, _, _)
ExpandRight(dist, apex, right) ==
  IF MayExpandRight(Len(dist), right) /\ dist[right + 1] - dist[apex] <= POST_WINDOW
    THEN ExpandRight(dist, apex, right + 1) ELSE right

\* while start_idx > left and smooth_speed[start_idx - 1] >= smooth_speed[start_idx]
RECURSIVE TrimLeft(_, _, _)
TrimLeft(ss, left, start) ==
  IF start > left /\ ss[start - 1] >= ss[start]
    THEN TrimLeft(ss, left, start - 1) ELSE start

\* while end_idx < right and smooth_speed[end_idx + 1] >= smooth_speed[end_idx]
RECURSIVE TrimRight(_, _, _)
TrimRight(ss, right, stop) ==
  IF stop < right /\ ss[stop + 1] >= ss[stop]
    THEN TrimRight(ss, right, stop + 1) ELSE stop

\* smooth_speed[i] < smooth_speed[i - 1] and smooth_speed[i] <= smooth_speed[i + 1]
LocalMinimum(ss, i) == ss[i] < ss[i - 1] /\ ss[i] <= ss[i + 1]

\* The segment kept for the minimum at i, or <<>> (one `continue` or the other).
FallbackAt(ss, dist, eff, i) ==
  IF ~LocalMinimum(ss, i) THEN <<>>
  ELSE LET left  == ExpandLeft(dist, i, i)
           right == ExpandRight(dist, i, i)
           drop  == Max2(SliceMax(ss, left, i) - ss[i], SliceMax(ss, i, right) - ss[i])
       IN  IF Lt(drop, SmoothDen, eff.min_drop) THEN <<>>
           ELSE LET start == TrimLeft(ss, left, i)
                    stop  == TrimRight(ss, right, i)
                IN  IF Lt(dist[stop] - dist[start], 1, eff.min_distance) THEN <<>>
                    ELSE << <<start, stop>> >>

\* The segments the loop appends for the indices i..last.
RECURSIVE FallbackFrom(_, _, _, _, _)
FallbackFrom(ss, dist, eff, i, last) ==
  IF i > last THEN <<>>
  ELSE IF i = last THEN FallbackAt(ss, dist, eff, i)
  ELSE FallbackFrom(ss, dist, eff, i, Mid(i, last))
         \o FallbackFrom(ss, dist, eff, Mid(i, last) + 1, last)

\* IndexError in the fallback: smooth_speed[i + 1] for an i of the loop, or
\* dist[right + 1] past the guard of the expansion, is out of range.  (An
\* index of -1 raises nothing: it reads Python's last element.)
FallbackRaises(n) ==
  \/ \E i \in FALLBACK_FIRST..FallbackLast(n) : i + 1 > n
  \/ \E right \in 1..n : MayExpandRight(n, right) /\ right + 1 > n

speed_drop_fallback(ss, dist, eff) ==
  FallbackFrom(ss, dist, eff, FALLBACK_FIRST, FallbackLast(Len(dist)))

\* --- numbering and selection

\* for idx, corner in enumerate(corners, start=1): corner["corner"] = idx
Renumber(corners) == List([k \in 1..Len(corners) |-> [corners[k] EXCEPT !.corner = k]])

DistanceStart(c) == c.distance_start

\* The list left in the order it was built.
AsBuilt(corners) == corners

\* corners.sort(key=lambda c: c["distance_start"])
SortByStart(corners) ==
  Elements(SortAsc(List([k \in 1..Len(corners) |-> <<DistanceStart(corners[k]), corners[k]>>])))

\* (entry_speed - apex_speed) + 0.5 * brake_peak, times 2 * InterpDen.
score(c) == 2 * (c.entry_speed - c.apex_speed) + c.brake_peak

\* The first 22 corners of the list, whatever their scores.
KeepFirst(corners) == Take(corners, TOP_CORNERS)

\* sorted(corners, key=score, reverse=True)[:22]
SelectTop(corners) ==
  Take(Elements(SortDesc(List([k \in 1..Len(corners) |-> <<score(corners[k]), corners[k]>>]))),
       TOP_CORNERS)

\* Whether the speed-minima fallback runs.
NeedsFallback(corners) == Len(corners) < FALLBACK_BELOW

\* Sort and number, keep the 22 best, sort and number again.
FinalCorners(corners) ==
  Renumber(SortByStart(SelectTop(Renumber(SortByStart(corners)))))

\* IndexError in the braking scan: smooth_throttle[idx] or dist[idx] out of range.
ScanRaises(ref) ==
  Len(ref.throttle) < Len(ref.brake) \/ Len(ref.dist) < Len(ref.brake)

\* The function is followed through its locals, each stage handing the next
\* what it has built: brake, the braking scan's segments; candidates, those or
\* the curvature fallback's when the scan found none; merged; first, the
\* corners of the merged segments; extra, the segments of the speed-minima
\* fallback, which runs when fewer than 12 corners were built.  The result
\* holds raised (an exception ends the function), corners (the return value),
\* the segment lists and built, the corners as build_corner made them, before
\* they are sorted and selected.
Raised ==
  [raised |-> TRUE, corners |-> <<>>, brake |-> <<>>, candidates |-> <<>>,
   merged |-> <<>>, extra |-> <<>>, built |-> <<>>]

\* if not corners: return []; else sort, number, select, sort, number.
Returned(segs, extra, corners) ==
  [raised     |-> FALSE,
   corners    |-> IF corners = <<>> THEN <<>> ELSE FinalCorners(corners),
   brake      |-> segs.brake,
   candidates |-> segs.candidates,
   merged     |-> segs.merged,
   extra      |-> extra,
   built      |-> corners]

AfterFallback(ref, cmp, eff, segs, first, extra) ==
  IF SegmentsRaise(ref, cmp, extra) THEN Raised
  ELSE Returned(segs, extra, BuildCorners(first, extra, ref, cmp, eff))

AfterBuild(ref, cmp, eff, segs, first) ==
  IF ~NeedsFallback(first) THEN Returned(segs, <<>>, first)
  ELSE IF FallbackRaises(Len(ref.dist)) THEN Raised
  ELSE AfterFallback(ref, cmp, eff, segs, first,
                     speed_drop_fallback(_moving_average(ref.speed, WINDOW), ref.dist, eff))

AfterMerge(ref, cmp, eff, segs) ==
  IF SegmentsRaise(ref, cmp, segs.merged) THEN Raised
  ELSE AfterBuild(ref, cmp, eff, segs, BuildCorners(<<>>, segs.merged, ref, cmp, eff))

AfterCandidates(ref, cmp, eff, brake, candidates) ==
  AfterMerge(ref, cmp, eff,
             [brake |-> brake, candidates |-> candidates,
              merged |-> MergeSegments(candidates, ref.dist)])

\* if not segments and reference.get("x") and reference.get("y")
Curved(ref, brake) == brake = <<>> /\ ref.x # <<>> /\ ref.y # <<>>

AfterScan(ref, cmp, eff, brake) ==
  IF Curved(ref, brake)
    THEN IF CurvatureRaises(ref) THEN Raised
         ELSE AfterCandidates(ref, cmp, eff, brake, CurvatureSegments(ref, eff))
    ELSE AfterCandidates(ref, cmp, eff, brake, brake)

WithThresholds(ref, cmp, eff) ==
  IF ScanRaises(ref) THEN Raised
  ELSE AfterScan(ref, cmp, eff,
                 BrakeSegments(_moving_average(ref.brake, WINDOW),
                               _moving_average(ref.throttle, WINDOW), ref.dist, eff))

_detect_corners(ref, cmp, cfg) == WithThresholds(ref, cmp, Effective(cfg))

\* ------------------------------------------------------------- lap_corners

\* The filter of top_losses without its test of the sign.
HasDelta(c) == ~IsNone(c.delta_s)

\* c.get("delta_s") and c["delta_s"] > 0
IsLoss(c) == ~IsNone(c.delta_s) /\ c.delta_s[1] # 0 /\ c.delta_s[1] > 0

LossKey(c) == c.delta_s[1]

\* sorted([c for c in corners if ...], key=delta_s, reverse=True)[:3], projected.
TopLosses(corners) ==
  LET losses == SelectSeq(corners, IsLoss)
      keyed  == List([k \in 1..Len(losses) |-> <<LossKey(losses[k]), losses[k]>>])
      best   == Take(Elements(SortDesc(keyed)), TOP_LOSSES)
  IN  List([k \in 1..Len(best) |-> [corner |-> best[k].corner, delta_s |-> best[k].delta_s[1]]])

EmptyResponse == [corners |-> <<>>, top_losses |-> <<>>]

\* The handler without its test of the driver row.
AnyDriver(driver_known) == FALSE

\* if not r: return {"corners": [], "top_losses": []}
DriverMissing(driver_known) == ~driver_known

\* The handler without its test of the comparison series.
NeverMissing(cmp_rows, cmp_series) == FALSE

\* compare_lap is not None and not cmp_series
ComparisonMissing(cmp_rows, cmp_series) == ~IsNone(cmp_rows) /\ IsNone(cmp_series)

NoSegments ==
  [brake |-> <<>>, candidates |-> <<>>, merged |-> <<>>, extra |-> <<>>, built |-> <<>>]

\* The handler past the driver lookup and the two telemetry fetches, followed
\* through its locals.  The result holds the response (or raised, when an
\* exception ends the handler) and the handler's locals at its end.
Empty(ref_series) ==
  [raised        |-> FALSE,
   response      |-> EmptyResponse,
   ref_series    |-> ref_series,
   ref_resampled |-> None,
   cmp_resampled |-> None,
   segments      |-> NoSegments]

Failed(ref_series) == [Empty(ref_series) EXCEPT !.raised = TRUE]

Respond(ref_series, ref_resampled, cmp_resampled, found) ==
  IF found.raised THEN Failed(ref_series)
  ELSE [raised        |-> FALSE,
        response      |-> [corners    |-> found.corners,
                           top_losses |-> TopLosses(found.corners)],
        ref_series    |-> ref_series,
        ref_resampled |-> Some(ref_resampled),
        cmp_resampled |-> cmp_resampled,
        segments      |-> [brake      |-> found.brake,
                           candidates |-> found.candidates,
                           merged     |-> found.merged,
                           extra      |-> found.extra,
                           built      |-> found.built]]

WithComparison(ref_series, cfg, ref_resampled, cmp_resampled) ==
  Respond(ref_series, ref_resampled, cmp_resampled,
          _detect_corners(ref_resampled, cmp_resampled, cfg))

\* cmp_resampled = _resample_series(cmp_series, step, grid) if cmp_series else None
WithReference(ref_series, cmp_series, cfg, ref_resampled) ==
  IF IsNone(cmp_series) THEN WithComparison(ref_series, cfg, ref_resampled, None)
  ELSE IF ResampleRaises(cmp_series[1], ref_resampled.dist) THEN Failed(ref_series)
  ELSE WithComparison(ref_series, cfg, ref_resampled,
                      Some(_resample_series(cmp_series[1], cfg.step,
                                            Some(ref_resampled.dist))))

\* if not ref_series or (compare_lap is not None and not cmp_series): return empty
WithSeries(ref_series, cmp_rows, cmp_series, cfg) ==
  IF IsNone(ref_series) \/ ComparisonMissing(cmp_rows, cmp_series) THEN Empty(ref_series)
  ELSE IF ResampleRaises(ref_series[1],
                         BuildGrid(ref_series[1].dist[Len(ref_series[1].dist)], cfg.step))
    THEN Failed(ref_series)
  ELSE WithReference(ref_series, cmp_series, cfg,
                     _resample_series(ref_series[1], cfg.step, None))

\* driver_known: the driver code resolves; ref_rows: the reference lap's rows;
\* cmp_rows: None when no compare_lap is given, else that lap's rows.
lap_corners(driver_known, ref_rows, cmp_rows, cfg) ==
  IF DriverMissing(driver_known) THEN Empty(None)
  ELSE WithSeries(_build_series(ref_rows),
                  cmp_rows,
                  IF ~IsNone(cmp_rows) /\ cmp_rows[1] # <<>>
                    THEN _build_series(cmp_rows[1]) ELSE None,
                  cfg)

\* ------------------------------------------------------------------ inputs

\* Query defaults of lap_corners (thresholds in thousandths).
DefaultConfig ==
  [step |-> 5, brake_on |-> 3000, brake_off |-> 1500, throttle_exit |-> 40000,
   min_distance |-> 14000, min_drop |-> 9000, min_time |-> 150,
   min_peak_brake |-> 500, scale01 |-> FALSE]

\* Bounds of the laps below.
MaxSignalRows == 4
MaxPositionRows == 4
MaxDriveRows == 5
MaxTurnRows == 5
MaxEventRows == 13
MaxWaveDips == 28

Row(ts, x, y, sig) ==
  [ts |-> ts, x |-> x, y |-> y,
   speed |-> sig.speed, throttle |-> sig.throttle, brake |-> sig.brake]

Words(alphabet, lo, hi) == UNION {[1..n -> alphabet] : n \in lo..hi}

\* What a sample reports while cruising, braking and at the apex, and the
\* same without a brake channel.
Cruise == [speed |-> Some(200), throttle |-> Some(100), brake |-> Some(1)]
Brake  == [speed |-> Some(110), throttle |-> Some(10),  brake |-> Some(100)]
Apex   == [speed |-> Some(100), throttle |-> Some(100), brake |-> Some(1)]
Fast   == [speed |-> Some(200), throttle |-> Some(100), brake |-> None]
Slow   == [speed |-> Some(105), throttle |-> Some(100), brake |-> None]
Slower == [speed |-> Some(100), throttle |-> Some(100), brake |-> None]

\* A lap along the x axis, one sample every `spacing`, the clock advancing dt
\* per sample.
StraightLap(word, spacing, dt) ==
  [i \in 1..Len(word) |-> Row(Some((i - 1) * dt), Some((i - 1) * spacing), Some(0), word[i])]

BrakingLaps == {StraightLap(w, 30, 1) : w \in Words({Cruise, Brake, Apex}, 2, MaxDriveRows)}

CoastingLaps ==
  {StraightLap(w, 30, dt) : w \in Words({Fast, Slow, Slower}, 2, MaxDriveRows), dt \in {0, 1}}

\* Laps of samples with missing fields: a sample lacks x, y or ts, or carries
\* speed, throttle and brake as missing, 0 and a value, in one of three orders
\* (so each field takes each of the three in turn).
Turned(v) == CASE v = Some(7) -> None [] v = None -> Some(0) [] OTHER -> Some(7)

Readings ==
  {[speed |-> v, throttle |-> Turned(v), brake |-> Turned(Turned(v))] :
     v \in {None, Some(0), Some(7)}}

SignalKinds ==
  {[lacks |-> f, sig |-> r] : f \in {""}, r \in Readings}
  \cup {[lacks |-> f, sig |-> Cruise] : f \in {"x", "y", "ts"}}

SignalLap(word) ==
  [i \in 1..Len(word) |->
     LET row == Row(Some(i - 1), Some((i - 1) * 10), Some(0), word[i].sig)
     IN  IF word[i].lacks = "" THEN row ELSE [row EXCEPT ![word[i].lacks] = None]]

SignalLaps == {SignalLap(w) : w \in Words(SignalKinds, 0, MaxSignalRows)}

\* Laps by position alone: every sample moves on by 0, 3 or 6 along x.
RECURSIVE SumTo(_, _)
SumTo(moves, i) == IF i = 0 THEN 0 ELSE moves[i] + SumTo(moves, i - 1)

PositionLap(moves) ==
  [i \in 1..Len(moves) |-> Row(Some(i - 1), Some(SumTo(moves, i)), Some(0), Cruise)]

PositionLaps == {PositionLap(m) : m \in Words({0, 3, 6}, 1, MaxPositionRows)}

\* Laps that turn: every sample moves on by 30 along x or along y.
TurnLap(dirs) ==
  [i \in 1..(Len(dirs) + 1) |->
     Row(Some(i - 1),
         Some(30 * Cardinality({k \in 1..(i - 1) : dirs[k] = "E"})),
         Some(30 * Cardinality({k \in 1..(i - 1) : dirs[k] = "N"})),
         Cruise)]

TurningLaps == {TurnLap(d) : d \in Words({"E", "N"}, 1, MaxTurnRows - 1)}

\* Long laps of braking events: `rows` samples cruising, but braking at the
\* samples in `at`.
EventLap(rows, at) ==
  StraightLap([i \in 1..rows |-> IF i \in at THEN Brake ELSE Cruise], 30, 1)

\* The lap brakes at its first sample and at up to two more.
EventLaps ==
  {EventLap(MaxEventRows, {1} \cup s) :
     s \in {t \in SUBSET (2..MaxEventRows) : Cardinality(t) <= 2}}

\* Long laps without a brake channel whose speed dips at every second
\* sample; the k-th dip is the deeper one when k % m = r.
WaveLap(dips, m, r) ==
  StraightLap([i \in 1..(2 * dips) |->
                 IF i % 2 = 1 THEN Fast
                 ELSE IF (i \div 2) % m = r THEN Slower ELSE Slow],
              30, 1)

WaveLaps ==
  {WaveLap(d, p[1], p[2]) :
     d \in (MaxWaveDips - 2)..MaxWaveDips,
     p \in {<<1, 1>>, <<1, 0>>, <<2, 0>>, <<3, 0>>, <<3, 1>>}}

\* The comparison lap's rows: the lap `rows` driven at other times (every
\* timestamp times `mul`, and `late` more from sample `from` on).
Retimed(rows, mul, from, late) ==
  [i \in 1..Len(rows) |->
     [rows[i] EXCEPT !.ts = Some(rows[i].ts[1] * mul + (IF i >= from THEN late ELSE 0))]]

\* No compare_lap; a lap without rows; a lap with one row; the same lap; the
\* lap at half the pace; the lap held up by 2 after its first sample.
Comparisons(rows) ==
  {None, Some(<<>>), Some(SubSeq(rows, 1, 1)), Some(rows),
   Some(Retimed(rows, 2, 1, 0)), Some(Retimed(rows, 1, 2, 2))}

Scenario(known, ref, cmp, cfg) ==
  [driver_known |-> known, ref_rows |-> ref, cmp_rows |-> cmp, cfg |-> cfg]

Compared(ref, cmps, cfg) == {Scenario(TRUE, ref, c, cfg) : c \in cmps}

Scenarios ==
  UNION {Compared(r, Comparisons(r), DefaultConfig) : r \in BrakingLaps}
  \cup {Scenario(TRUE, r, None, [DefaultConfig EXCEPT !.scale01 = TRUE]) : r \in BrakingLaps}
  \cup UNION {Compared(r, {None, Some(Retimed(r, 2, 1, 0))}, DefaultConfig) : r \in CoastingLaps}
  \cup {Scenario(TRUE, r, None, DefaultConfig) : r \in SignalLaps}
  \cup UNION {Compared(r, {None, Some(r)}, DefaultConfig) : r \in PositionLaps}
  \cup UNION {Compared(r, {None, Some(r)}, [DefaultConfig EXCEPT !.step = 15]) :
                r \in TurningLaps}
  \cup {Scenario(FALSE, r, None, DefaultConfig) : r \in TurningLaps}
  \cup UNION {Compared(r, {None, Some(Retimed(r, 2, 1, 0))}, DefaultConfig) : r \in EventLaps}
  \cup {Scenario(TRUE, r, None, [DefaultConfig EXCEPT !.min_distance = 60000]) : r \in EventLaps}
  \cup {Scenario(TRUE, r, None, [DefaultConfig EXCEPT !.step = 15]) : r \in EventLaps}
  \cup UNION {Compared(r, {None, Some(r), Some(Retimed(r, 2, 1, 0))},
                       [DefaultConfig EXCEPT !.step = 30]) : r \in WaveLaps}

\* ----------------------------------------------------------- state machine

VARIABLES
  request,        \* the query and the rows the two fetches return
  pc,             \* "received" until the handler returns or raises
  raised,         \* an exception ended the handler
  response,       \* the JSON body returned
  ref_series,     \* the handler's locals at its end
  ref_resampled,
  cmp_resampled,
  segments        \* _detect_corners' segment lists

vars == <<request, pc, raised, response, ref_series, ref_resampled, cmp_resampled, segments>>

Init ==
  /\ request \in Scenarios
  /\ pc = "received"
  /\ raised = FALSE
  /\ response = EmptyResponse
  /\ ref_series = None
  /\ ref_resampled = None
  /\ cmp_resampled = None
  /\ segments = NoSegments

\* GET /api/laps/{lap_id}/corners, from the request to the response.
LapCorners ==
  /\ pc = "received"
  /\ \E out \in {lap_corners(request.driver_known, request.ref_rows,
                              request.cmp_rows, request.cfg)} :
       /\ raised' = out.raised
       /\ response' = out.response
       /\ ref_series' = out.ref_series
       /\ ref_resampled' = out.ref_resampled
       /\ cmp_resampled' = out.cmp_resampled
       /\ segments' = out.segments
  /\ pc' = IF raised' THEN "failed" ELSE "responded"
  /\ UNCHANGED request

Next == LapCorners

Spec == Init /\ [][Next]_vars

\* ------------------------------------------------------------------ claims

\* The resampled reference and comparison of a request that was answered.
Reference == ref_resampled[1]
Comparison == cmp_resampled[1]

\* The grid index of a corner's distance (the grid is strictly increasing
\* wherever a corner is found).
GridIndex(d) == CHOOSE i \in 1..Len(Reference.dist) : Reference.dist[i] = d
StartIndex(c) == GridIndex(c.distance_start)
EndIndex(c) == GridIndex(c.distance_end)

\* The comparison's delay on the reference at grid index i.
Delay(i) == Comparison.time[i] - Reference.time[i]

Corners == response.corners
Losses == response.top_losses
Usable(rows) == {i \in 1..Len(rows) : rows[i].x # None /\ rows[i].y # None /\ rows[i].ts # None}

\* C1: a corner list that is returned is sorted ascending by distance_start
\* and its corner fields are 1..N in list order.
C1_SortedAndNumbered ==
  pc = "responded" =>
    \A k \in 1..Len(Corners) :
      /\ Corners[k].corner = k
      /\ k < Len(Corners) => Corners[k].distance_start <= Corners[k + 1].distance_start

\* Two corners are returned, and the one built later (by the speed-minima
\* fallback) starts before one built from a merged segment.
C1_Witness ==
  /\ pc = "responded"
  /\ Len(Corners) >= 2
  /\ \E m \in 1..Len(segments.merged), e \in 1..Len(segments.extra) :
       /\ Reference.dist[segments.extra[e][1]] < Reference.dist[segments.merged[m][1]]
       /\ \E j, k \in 1..Len(Corners) :
            /\ j < k
            /\ Corners[j].distance_start = Reference.dist[segments.extra[e][1]]
            /\ Corners[j].distance_end = Reference.dist[segments.extra[e][2]]
            /\ Corners[k].distance_start = Reference.dist[segments.merged[m][1]]

\* C2: every returned corner spans at least min_distance, takes at least
\* min_time on the reference, and drops at least min_drop in speed or brakes
\* at least min_peak_brake (thresholds as _detect_corners uses them).
C2_AcceptanceRules ==
  pc = "responded" =>
    \A k \in 1..Len(Corners) :
      LET c   == Corners[k]
          eff == Effective(request.cfg)
      IN  /\ GEq(c.distance_end - c.distance_start, 1, eff.min_distance)
          /\ GEq(Reference.time[EndIndex(c)] - Reference.time[StartIndex(c)], RawDen, eff.min_time)
          /\ \/ GEq(c.entry_speed - c.apex_speed, RawDen, eff.min_drop)
             \/ GEq(c.brake_peak, RawDen, eff.min_peak_brake)

\* A corner is returned while another segment of the same lap was rejected.
C2_Witness ==
  /\ pc = "responded"
  /\ Corners # <<>>
  /\ Len(Corners) < Len(segments.merged) + Len(segments.extra)

\* C3 (amended): delta_s is null without a comparison; with one it is the
\* comparison's time span less the reference's between the corner's own
\* indices, that is, the growth of the comparison's delay from start to end:
\* 0 when the delay is constant across the corner.
C3_DeltaIsSpanDifference ==
  pc = "responded" =>
    \A k \in 1..Len(Corners) :
      LET c == Corners[k]
          a == StartIndex(c)
          b == EndIndex(c)
      IN  IF IsNone(request.cmp_rows)
            THEN c.delta_s = None
            ELSE /\ c.delta_s = Some((Comparison.time[b] - Comparison.time[a])
                                      - (Reference.time[b] - Reference.time[a]))
                 /\ c.delta_s = Some(Delay(b) - Delay(a))
                 /\ (\A i \in a..b : Delay(i) = Delay(a)) => c.delta_s = Some(0)

\* A corner across which the comparison is late by one constant amount.
C3_Witness ==
  /\ pc = "responded"
  /\ ~IsNone(request.cmp_rows)
  /\ \E k \in 1..Len(Corners) :
       /\ Delay(StartIndex(Corners[k])) > 0
       /\ \A i \in StartIndex(Corners[k])..EndIndex(Corners[k]) :
            Delay(i) = Delay(StartIndex(Corners[k]))
       /\ Corners[k].delta_s = Some(0)

\* C3 as stated: a comparison late by a constant d across a corner's index
\* range gives that corner delta_s = d.
C3_ConstantDelayIsDelta ==
  pc = "responded" =>
    \A k \in 1..Len(Corners) :
      LET c == Corners[k]
          a == StartIndex(c)
          b == EndIndex(c)
      IN  IF IsNone(request.cmp_rows)
            THEN c.delta_s = None
            ELSE /\ c.delta_s = Some((Comparison.time[b] - Comparison.time[a])
                                      - (Reference.time[b] - Reference.time[a]))
                 /\ (\A i \in a..b : Delay(i) = Delay(a)) => c.delta_s = Some(Delay(a))

\* C4 (amended): top_losses has at most 3 entries, each with delta_s > 0,
\* sorted descending by delta_s; equal values may follow one another.
C4_TopLossesDescending ==
  pc = "responded" =>
    /\ Len(Losses) <= TOP_LOSSES
    /\ \A k \in 1..Len(Losses) :
         /\ Losses[k].delta_s > 0
         /\ k < Len(Losses) => Losses[k].delta_s >= Losses[k + 1].delta_s
         /\ \E j \in 1..Len(Corners) :
              Corners[j].corner = Losses[k].corner /\ Corners[j].delta_s = Some(Losses[k].delta_s)

\* Two consecutive entries of top_losses carry the same delta_s.
C4_Witness ==
  /\ pc = "responded"
  /\ \E k \in 1..(Len(Losses) - 1) : Losses[k].delta_s = Losses[k + 1].delta_s

\* C4 as stated: the entries are sorted strictly descending.
C4_StrictlyDescending ==
  pc = "responded" =>
    /\ Len(Losses) <= TOP_LOSSES
    /\ \A k \in 1..Len(Losses) :
         /\ Losses[k].delta_s > 0
         /\ k < Len(Losses) => Losses[k].delta_s > Losses[k + 1].delta_s

\* C5: with an unresolved driver, or fewer than 2 reference samples carrying
\* x, y and ts, the handler returns the empty response and raises nothing.
C5_TooFewSamplesIsEmpty ==
  (pc # "received" /\ (~request.driver_known \/ Cardinality(Usable(request.ref_rows)) < 2)) =>
    pc = "responded" /\ ~raised /\ response = EmptyResponse

\* The lap has rows, one of them usable, and was answered.
C5_Witness ==
  /\ pc = "responded"
  /\ request.driver_known
  /\ Len(request.ref_rows) >= 2
  /\ Cardinality(Usable(request.ref_rows)) = 1

\* C6: when a comparison lap is requested and has no rows, or fewer than 2
\* samples carrying x, y and ts, the response is empty although the reference
\* lap is valid.
C6_MissingComparisonIsEmpty ==
  (/\ pc # "received"
   /\ request.driver_known
   /\ ~IsNone(request.cmp_rows)
   /\ Cardinality(Usable(request.cmp_rows[1])) < 2) =>
    pc = "responded" /\ response = EmptyResponse

\* The comparison has one row, and the reference lap alone gives corners.
C6_Witness ==
  /\ pc = "responded"
  /\ request.driver_known
  /\ ~IsNone(request.cmp_rows)
  /\ Len(request.cmp_rows[1]) = 1
  /\ lap_corners(TRUE, request.ref_rows, None, request.cfg).response.corners # <<>>

\* C7: the grid built for the reference starts at 0, never decreases, stays
\* at or below the total path length and ends on it exactly.
C7_GridEndsOnTotal ==
  (pc = "responded" /\ ~IsNone(ref_resampled)) =>
    LET grid  == Reference.dist
        total == ref_series[1].dist[Len(ref_series[1].dist)]
    IN  /\ Len(grid) >= 2
        /\ grid[1] = 0
        /\ \A i \in 1..Len(grid) : grid[i] <= total
        /\ \A i \in 1..(Len(grid) - 1) : grid[i] <= grid[i + 1]
        /\ grid[Len(grid)] = total

\* A lap longer than one step whose length is no multiple of the step.
C7_Witness ==
  /\ pc = "responded"
  /\ ~IsNone(ref_resampled)
  /\ ref_series[1].dist[Len(ref_series[1].dist)] > request.cfg.step
  /\ ref_series[1].dist[Len(ref_series[1].dist)] % request.cfg.step # 0

\* C8 as stated: after the first usable sample, speed, throttle and brake are
\* the sample's own value when it is present (0 included) and the previous
\* output when it is missing; at the first a missing value becomes 0.
C8_OwnValueWhenPresent ==
  (pc = "responded" /\ ~IsNone(ref_series)) =>
    LET samples == SelectSeq(request.ref_rows,
                             LAMBDA r : r.x # None /\ r.y # None /\ r.ts # None)
    IN  \A f \in {"speed", "throttle", "brake"} :
          \A k \in 1..Len(samples) :
            LET out == ref_series[1][f]
            IN  IF samples[k][f] # None THEN out[k] = samples[k][f][1]
                ELSE out[k] = IF k = 1 THEN 0 ELSE out[k - 1]

\* C9: the handler never ends by an exception.
C9_NeverRaises == ~raised /\ pc # "failed"

\* A lap whose usable samples all share one position was answered.
C9_Witness ==
  /\ pc = "responded"
  /\ ~IsNone(ref_resampled)
  /\ Len(ref_series[1].dist) >= 3
  /\ ref_series[1].dist[Len(ref_series[1].dist)] = 0

\* C10 as stated: when the braking scan finds one segment and build_corner
\* accepts it, the result is one corner, with that segment's range.
C10_OneBrakingEventOneCorner ==
  (/\ pc = "responded"
   /\ Len(segments.brake) = 1
   /\ ~IsNone(build_corner(Reference, cmp_resampled, Effective(request.cfg),
                           segments.brake[1][1], segments.brake[1][2]))) =>
    /\ Len(Corners) = 1
    /\ Corners[1].distance_start = Reference.dist[segments.brake[1][1]]
    /\ Corners[1].distance_end = Reference.dist[segments.brake[1][2]]

\* The smoothed brake and throttle the braking scan reads, and its thresholds.
SmoothBrake == _moving_average(Reference.brake, WINDOW)
SmoothThrottle == _moving_average(Reference.throttle, WINDOW)
Thresholds == Effective(request.cfg)

\* The least index of a set of grid indices, 0 when there is none.
Least(S) == IF S = {} THEN 0 ELSE CHOOSE i \in S : \A j \in S : i <= j

\* From Idle at index `from`: the first index whose smoothed brake is at
\* least brake_on.
FirstTrigger(sb, from) ==
  Least({t \in from..Len(sb) : GEq(sb[t], SmoothDen, Thresholds.brake_on)})

\* From Braking since the trigger t: the first later index e where the brake
\* is at most brake_off and the throttle was at least throttle_exit at e - 2,
\* e - 1 and e, all three scanned after t.
FirstRelease(sb, st, t) ==
  Least({e \in (t + 3)..Len(sb) :
           /\ LEq(sb[e], SmoothDen, Thresholds.brake_off)
           /\ \A j \in (e - 2)..e : GEq(st[j], SmoothDen, Thresholds.throttle_exit)})

\* The candidate (start, e) of the trigger t, when it is recorded.
Recorded(start, e) ==
  IF e - start >= 3
     /\ GEq(Reference.dist[e] - Reference.dist[start], 1, Thresholds.min_distance)
    THEN <<<<start, e>>>> ELSE <<>>

\* The segments the scan records from Idle at index `from` on.
RECURSIVE ScanFrom(_, _, _)
Released(sb, st, t, e) ==
  IF e = 0 THEN <<>>
  ELSE Recorded(IF t = 1 THEN 1 ELSE t - 1, e) \o ScanFrom(sb, st, e + 1)

Triggered(sb, st, t) ==
  IF t = 0 THEN <<>> ELSE Released(sb, st, t, FirstRelease(sb, st, t))

ScanFrom(sb, st, from) == Triggered(sb, st, FirstTrigger(sb, from))

\* C11: the braking scan records exactly the segments of the Idle/Braking
\* machine: Idle leaves at the first index t with smoothed brake >= brake_on
\* and the start is t - 1 (the first index when t is the first); Braking
\* returns to Idle at the first later index e with brake <= brake_off and
\* throttle >= throttle_exit at the last three indices scanned since t;
\* (start, e) is recorded only when e - start >= 3 and the distance between
\* them is at least min_distance; a braking state open at the end records
\* nothing; the recorded segments are in increasing order and none starts
\* before the one before it ends.
C11_BrakingScan ==
  (pc = "responded" /\ ~IsNone(ref_resampled)) =>
    /\ segments.brake = ScanFrom(SmoothBrake, SmoothThrottle, 1)
    /\ \A k \in 1..Len(segments.brake) :
         /\ segments.brake[k][2] - segments.brake[k][1] >= MIN_POINTS
         /\ GEq(Reference.dist[segments.brake[k][2]] - Reference.dist[segments.brake[k][1]],
                1, Thresholds.min_distance)
         /\ k < Len(segments.brake) => segments.brake[k][2] <= segments.brake[k + 1][1]

\* Two segments are recorded: the first was triggered at the first sample (its
\* start is the first index), the second starts one index before its trigger,
\* and after it the brake triggers once more without a release before the
\* series ends.
C11_Witness ==
  /\ pc = "responded"
  /\ Len(segments.brake) >= 2
  /\ FirstTrigger(SmoothBrake, 1) = 1
  /\ segments.brake[1][1] = 1
  /\ FirstTrigger(SmoothBrake, segments.brake[1][2] + 1) = segments.brake[2][1] + 1
  /\ FirstTrigger(SmoothBrake, segments.brake[Len(segments.brake)][2] + 1) > 0

\* C12 as stated: entry and exit speed are the raw speed at start and end,
\* and apex_speed and brake_peak are the minimum raw speed and the maximum
\* raw brake over the half-open range start..end-1.
C12_HalfOpenFeatures ==
  pc = "responded" =>
    \A k \in 1..Len(Corners) :
      LET a == StartIndex(Corners[k])
          b == EndIndex(Corners[k])
      IN  /\ Corners[k].entry_speed = Reference.speed[a]
          /\ Corners[k].exit_speed = Reference.speed[b]
          /\ Corners[k].apex_speed = SliceMin(Reference.speed, a, b - 1)
          /\ Corners[k].brake_peak = SliceMax(Reference.brake, a, b - 1)

\* C12: entry and exit speed are the raw speed at start and end, and
\* apex_speed and brake_peak are the minimum raw speed and the maximum raw
\* brake over start..end, the end index included.
C12_ClosedFeatures ==
  pc = "responded" =>
    \A k \in 1..Len(Corners) :
      LET a == StartIndex(Corners[k])
          b == EndIndex(Corners[k])
      IN  /\ Corners[k].entry_speed = Reference.speed[a]
          /\ Corners[k].exit_speed = Reference.speed[b]
          /\ \A i \in a..b : Corners[k].apex_speed <= Reference.speed[i]
          /\ \E i \in a..b : Corners[k].apex_speed = Reference.speed[i]
          /\ \A i \in a..b : Corners[k].brake_peak >= Reference.brake[i]
          /\ \E i \in a..b : Corners[k].brake_peak = Reference.brake[i]

\* A corner whose raw speed is lowest at its end index alone, or whose raw
\* brake is highest there alone.
C12_Witness ==
  /\ pc = "responded"
  /\ \E k \in 1..Len(Corners) :
       LET a == StartIndex(Corners[k])
           b == EndIndex(Corners[k])
       IN  \/ \A i \in a..(b - 1) : Reference.speed[b] < Reference.speed[i]
           \/ \A i \in a..(b - 1) : Reference.brake[b] > Reference.brake[i]

\* The candidate segments and the merged segments of a request, and the
\* distance from the end of one segment to the start of another.
Candidates == segments.candidates
Merged == segments.merged
Gap(prev, next) == Reference.dist[next[1]] - Reference.dist[prev[2]]

\* The merged segments that cover candidate k, and the one that does.
Covering(k) ==
  {m \in 1..Len(Merged) :
     Merged[m][1] <= Candidates[k][1] /\ Candidates[k][2] <= Merged[m][2]}
Owner(k) == CHOOSE m \in Covering(k) : TRUE

\* The end of candidate k's merged segment as it was when k had been
\* processed: the largest end of the candidates up to k that it covers.
EndSoFar(k) ==
  LET ends == {Candidates[j][2] : j \in {i \in 1..k : Owner(i) = Owner(k)}}
  IN  CHOOSE e \in ends : \A f \in ends : f <= e

\* C13: the candidates are taken in order of start distance; a candidate is
\* absorbed into the previous merged segment, whose end becomes the larger of
\* the two ends, exactly when its start is at most 60 past that segment's
\* end, and opens a new merged segment otherwise; so two consecutive merged
\* segments are more than 60 apart and every candidate is covered by exactly
\* one merged segment.
C13_MergeByGap ==
  (pc = "responded" /\ ~IsNone(ref_resampled)) =>
    /\ \A k \in 1..(Len(Candidates) - 1) :
         Reference.dist[Candidates[k][1]] <= Reference.dist[Candidates[k + 1][1]]
    /\ \A k \in 1..Len(Candidates) : Cardinality(Covering(k)) = 1
    /\ \A m \in 1..Len(Merged) : \E k \in 1..Len(Candidates) : Owner(k) = m
    /\ Candidates # <<>> => Owner(1) = 1 /\ Merged[1][1] = Candidates[1][1]
    /\ \A k \in 2..Len(Candidates) :
         IF Gap(<<Merged[Owner(k - 1)][1], EndSoFar(k - 1)>>, Candidates[k]) <= MERGE_GAP
           THEN Owner(k) = Owner(k - 1)
           ELSE Owner(k) = Owner(k - 1) + 1 /\ Merged[Owner(k)][1] = Candidates[k][1]
    /\ \A m \in 1..Len(Merged) :
         \E k \in 1..Len(Candidates) :
           Owner(k) = m /\ EndSoFar(k) = Merged[m][2]
           /\ \A j \in 1..Len(Candidates) : Owner(j) = m => j <= k
    /\ \A m \in 1..(Len(Merged) - 1) : Gap(Merged[m], Merged[m + 1]) > MERGE_GAP

\* Three candidates were merged into two segments: one candidate was
\* absorbed and one opened a segment of its own.
C13_Witness ==
  /\ pc = "responded"
  /\ Len(Candidates) >= 3
  /\ Len(Merged) >= 2
  /\ Len(Merged) < Len(Candidates)

\* The corners as build_corner made them, and a returned corner as it was
\* before it was numbered.
Built == segments.built
Unnumbered(c) == [c EXCEPT !.corner = 0]

\* How often a corner occurs among the built and among the returned corners.
TimesBuilt(c) == Cardinality({k \in 1..Len(Built) : Built[k] = c})
TimesKept(c) == Cardinality({k \in 1..Len(Corners) : Unnumbered(Corners[k]) = c})

\* C14: at most 22 corners are returned; they are corners that were built,
\* all of them when at most 22 were built, and otherwise 22 of them such that
\* every dropped corner's score is at most every retained corner's score, for
\* score = (entry_speed - apex_speed) + 0.5 * brake_peak.
C14_TopByScore ==
  pc = "responded" =>
    /\ Len(Corners) <= TOP_CORNERS
    /\ Len(Corners) = Min2(Len(Built), TOP_CORNERS)
    /\ \A k \in 1..Len(Corners) :
         TimesKept(Unnumbered(Corners[k])) <= TimesBuilt(Unnumbered(Corners[k]))
    /\ \A d \in 1..Len(Built) :
         TimesKept(Built[d]) < TimesBuilt(Built[d]) =>
           \A k \in 1..Len(Corners) : score(Built[d]) <= score(Corners[k])

\* More than 22 corners were built, and one that was dropped scores less
\* than a returned corner that starts after it.
C14_Witness ==
  /\ pc = "responded"
  /\ Len(Built) > TOP_CORNERS
  /\ \E d \in 1..Len(Built), k \in 1..Len(Corners) :
       /\ TimesKept(Built[d]) < TimesBuilt(Built[d])
       /\ score(Built[d]) < score(Corners[k])
       /\ Built[d].distance_start < Corners[k].distance_start

\* C15 as stated: no two returned corners overlap; every corner starts at or
\* after the end of the corner before it in the list.
C15_NoOverlap ==
  pc = "responded" =>
    \A k \in 1..(Len(Corners) - 1) :
      Corners[k + 1].distance_start >= Corners[k].distance_end

\* The comparison lap is the reference lap itself.
SelfCompared == request.cmp_rows = Some(request.ref_rows)

\* C16: a lap compared with itself gives delta_s = 0 at every returned
\* corner and no top_losses; and in every response each entry of top_losses
\* carries the number and the delta_s of a returned corner.
C16_SelfComparisonLosesNothing ==
  pc = "responded" =>
    /\ SelfCompared =>
         /\ \A k \in 1..Len(Corners) : Corners[k].delta_s = Some(0)
         /\ Losses = <<>>
    /\ \A i \in 1..Len(Losses) :
         \E k \in 1..Len(Corners) :
           /\ Corners[k].corner = Losses[i].corner
           /\ Corners[k].delta_s = Some(Losses[i].delta_s)

\* A lap compared with itself was answered with two corners or more, none of
\* them instantaneous on the reference.
C16_Witness ==
  /\ pc = "responded"
  /\ SelfCompared
  /\ Len(Corners) >= 2
  /\ \A k \in 1..Len(Corners) :
       Reference.time[EndIndex(Corners[k])] > Reference.time[StartIndex(Corners[k])]

====
